---------------------------- MODULE Spec2Model ----------------------------
(***************************************************************************)
(* Kiwi TCMS: the telemetry RPC endpoints (tcms/telemetry/api.py), the     *)
(* TestExecution RPC endpoints (tcms/xmlrpc/api/testexecution.py) and the  *)
(* issue tracker adapters (tcms/issuetracker/types.py).                    *)
(*                                                                         *)
(* The relational store is a set of tables: test cases, test executions    *)
(* and link references.  Every RPC endpoint is one action; it records the  *)
(* request in `call` and what the endpoint returned or raised in           *)
(* `response`.  A Python value that may be None is a set with at most one  *)
(* element: {} is None, {v} is the value v.                                *)
(***************************************************************************)
EXTENDS Integers, Sequences, FiniteSets, TLC

VARIABLES
    testcases,      \* TestCase table: case id -> row
    executions,     \* TestExecution table: sequence of rows, pk = index
    links,          \* LinkReference table: set of rows
    next_link_id,   \* the next primary key of the LinkReference table
    adapter,        \* the issue tracker adapter object (a sequence of 0 or 1)
    threads,        \* the worker threads started so far, in start order
    caller,         \* the position of the caller of add_testcase_to_issue
    call,           \* the last request
    response        \* what the last request returned or raised

vars == <<testcases, executions, links, next_link_id, adapter, threads,
          caller, call, response>>

-----------------------------------------------------------------------------
(* Bounds of the model. *)

MaxExecutions == 3
MaxCrudExecutions == 2
MaxRun == 2
MaxCase == 2
MaxLinkId == 3
MaxTestcases == 2

-----------------------------------------------------------------------------
(* Python values. *)

None == {}
Some(v) == {v}
Value(opt) == CHOOSE v \in opt : TRUE

\* `x is not None`
IsNotNone(opt) == opt # None

\* bool(x) of an optional integer: None and 0 are falsy
IntTruthy(opt) == opt # None /\ opt # Some(0)

\* bool(x) of an optional model instance: only None is falsy
Truthy(opt) == opt # None

Range(seq) == {seq[i] : i \in DOMAIN seq}

RECURSIVE Sum(_, _)
Sum(f, S) == IF S = {} THEN 0
             ELSE LET x == CHOOSE y \in S : TRUE IN f[x] + Sum(f, S \ {x})

\* pairs compared as SQL compares the columns of ORDER BY a, b
LexLE(a, b) == a[1] < b[1] \/ (a[1] = b[1] /\ a[2] <= b[2])

\* all the orders in which the rows S can come back from a query ordered by
\* key (a function from rows to pairs): rows with equal keys come back in
\* any order
OrderBy(S, key) ==
    {ord \in [1..Cardinality(S) -> S] :
        /\ Range(ord) = S
        /\ \A i \in 1..(Cardinality(S) - 1) :
               LexLE(key[ord[i]], key[ord[i + 1]])}

-----------------------------------------------------------------------------
(* The rows the forms can refer to. *)

Runs == 1..MaxRun
Cases == 1..MaxCase
Builds == {1, 2}
Users == {1, 2}

\* TestExecutionStatus rows, by name
StatusNames == {"IDLE", "PASSED", "FAILED", "ERROR"}
passed_status_names == {"PASSED"}
failure_status_names == {"ERROR", "FAILED"}
chart_status_names == <<"success", "failure", "idle">>

color_code(status) ==
    IF status \in passed_status_names THEN "success"
    ELSE IF status \in failure_status_names THEN "failure"
    ELSE "idle"

RunSummary(run_id) == <<"run", run_id>>
CaseSummary(case_id) == <<"case", case_id>>

\* what the RPC layer hands to a form: a dict of field values, or something
\* that is not a dict.  A key that is absent from the dict is None here.
NoValues ==
    [run |-> None, case |-> None, build |-> None, assignee |-> None,
     status |-> None, case_text_version |-> None, sortkey |-> None]

Dict(d) == [is_dict |-> TRUE, d |-> d]
NotADict == [is_dict |-> FALSE, d |-> NoValues]

\* `not values` of a dict
IsEmptyDict(d) == \A k \in DOMAIN d : d[k] = None

-----------------------------------------------------------------------------
(* tcms.testruns.forms and tcms.testruns.models, which the endpoints use. *)

\* a ModelChoiceField accepts the primary key of an existing row
FieldOk(raw, rows, required) ==
    IF raw = None THEN ~required ELSE Value(raw) \in rows

XMLRPCNewExecutionForm_is_valid(d) ==
    /\ FieldOk(d.run, Runs, TRUE)
    /\ FieldOk(d.case, DOMAIN testcases, TRUE)
    /\ FieldOk(d.build, Builds, TRUE)
    /\ FieldOk(d.assignee, Users, FALSE)
    /\ FieldOk(d.status, StatusNames, FALSE)
    /\ FieldOk(d.case_text_version, Nat, FALSE)
    /\ FieldOk(d.sortkey, Nat, FALSE)

XMLRPCNewExecutionForm_cleaned_data(d) ==
    [d EXCEPT !.status = IF d.status = None THEN Some("IDLE") ELSE d.status,
              !.case_text_version =
                  IF d.case_text_version = None THEN Some(1)
                  ELSE d.case_text_version]

XMLRPCUpdateExecutionForm_is_valid(d) ==
    /\ FieldOk(d.build, Builds, FALSE)
    /\ FieldOk(d.assignee, Users, FALSE)
    /\ FieldOk(d.status, StatusNames, FALSE)
    /\ FieldOk(d.case_text_version, Nat, FALSE)
    /\ FieldOk(d.sortkey, Nat, FALSE)

XMLRPCUpdateExecutionForm_cleaned_data(d) == d

\* TestRun.add_case_run: the new row of the TestExecution table
add_case_run(run, case, build, assignee, status, case_text_version, sortkey) ==
    [pk |-> Len(executions) + 1,
     run_id |-> run,
     case_id |-> case,
     build |-> build,
     assignee |-> assignee,
     tested_by |-> None,
     status |-> status,
     case_text_version |-> case_text_version,
     sortkey |-> sortkey]

\* TestExecution.serialize
serialize(te) ==
    [case_run_id |-> te.pk,
     run_id |-> te.run_id,
     case_id |-> te.case_id,
     build_id |-> te.build,
     assignee_id |-> te.assignee,
     tested_by_id |-> te.tested_by,
     status |-> te.status,
     case_text_version |-> te.case_text_version,
     sortkey |-> te.sortkey]

Returns(value) == [exc |-> "", value |-> value]
Raises(exc) == [exc |-> exc, value |-> None]

-----------------------------------------------------------------------------
(* tcms/xmlrpc/api/testexecution.py: create and update *)

\* a plausible slip: the cleaned sortkey is not handed to add_case_run
create_row_without_sortkey(cleaned_data) ==
    add_case_run(Value(cleaned_data.run),
                 Value(cleaned_data.case),
                 Value(cleaned_data.build),
                 cleaned_data.assignee,
                 Value(cleaned_data.status),
                 Value(cleaned_data.case_text_version),
                 Some(0))

\* the row create adds when the form is valid
create_row(cleaned_data) ==
    add_case_run(Value(cleaned_data.run),
                 Value(cleaned_data.case),
                 Value(cleaned_data.build),
                 cleaned_data.assignee,
                 Value(cleaned_data.status),
                 Value(cleaned_data.case_text_version),
                 cleaned_data.sortkey)

create_response(values) ==
    IF ~values.is_dict THEN Raises("TypeError")
    ELSE IF IsEmptyDict(values.d) THEN Raises("ValueError")
    ELSE IF XMLRPCNewExecutionForm_is_valid(values.d)
         THEN Returns(serialize(
                  create_row(XMLRPCNewExecutionForm_cleaned_data(values.d))))
         ELSE Raises("ValueError")

create_executions(values) ==
    IF /\ values.is_dict
       /\ ~IsEmptyDict(values.d)
       /\ XMLRPCNewExecutionForm_is_valid(values.d)
    THEN Append(executions,
                create_row(XMLRPCNewExecutionForm_cleaned_data(values.d)))
    ELSE executions

create(values, permitted, limit) ==
    /\ call' = [op |-> "create", values |-> values, permitted |-> permitted]
    /\ IF ~permitted
       THEN /\ response' = Raises("PermissionDenied")
            /\ executions' = executions
       ELSE /\ Len(create_executions(values)) <= limit
            /\ response' = create_response(values)
            /\ executions' = create_executions(values)
    /\ UNCHANGED <<testcases, links, next_link_id, adapter, threads, caller>>

\* a plausible slip: `if form.cleaned_data['sortkey']:`, which skips 0
update_row_truthy_sortkey(tcr, cleaned_data, user) ==
    LET b == IF Truthy(cleaned_data.build)
             THEN [tcr EXCEPT !.build = Value(cleaned_data.build)]
             ELSE tcr
        a == IF Truthy(cleaned_data.assignee)
             THEN [b EXCEPT !.assignee = cleaned_data.assignee]
             ELSE b
        s == IF Truthy(cleaned_data.status)
             THEN [a EXCEPT !.status = Value(cleaned_data.status),
                            !.tested_by = Some(user)]
             ELSE a
    IN  IF IntTruthy(cleaned_data.sortkey)
        THEN [s EXCEPT !.sortkey = cleaned_data.sortkey]
        ELSE s

\* the fields update assigns to the row tcr
update_row(tcr, cleaned_data, user) ==
    LET b == IF Truthy(cleaned_data.build)
             THEN [tcr EXCEPT !.build = Value(cleaned_data.build)]
             ELSE tcr
        a == IF Truthy(cleaned_data.assignee)
             THEN [b EXCEPT !.assignee = cleaned_data.assignee]
             ELSE b
        s == IF Truthy(cleaned_data.status)
             THEN [a EXCEPT !.status = Value(cleaned_data.status),
                            !.tested_by = Some(user)]
             ELSE a
    IN  IF IsNotNone(cleaned_data.sortkey)
        THEN [s EXCEPT !.sortkey = cleaned_data.sortkey]
        ELSE s

\* a plausible slip: the row is saved whether or not the form is valid
update_executions_unvalidated(case_run_id, values, user) ==
    IF case_run_id \in DOMAIN executions
    THEN [executions EXCEPT ![case_run_id] =
              update_row(executions[case_run_id],
                         XMLRPCUpdateExecutionForm_cleaned_data(values), user)]
    ELSE executions

\* the TestExecution table after update
update_executions(case_run_id, values, user) ==
    IF /\ case_run_id \in DOMAIN executions
       /\ XMLRPCUpdateExecutionForm_is_valid(values)
    THEN [executions EXCEPT ![case_run_id] =
              update_row(executions[case_run_id],
                         XMLRPCUpdateExecutionForm_cleaned_data(values), user)]
    ELSE executions

update_response(case_run_id, values, user) ==
    IF case_run_id \notin DOMAIN executions THEN Raises("DoesNotExist")
    ELSE IF XMLRPCUpdateExecutionForm_is_valid(values)
    THEN Returns(serialize(
             update_row(executions[case_run_id],
                        XMLRPCUpdateExecutionForm_cleaned_data(values), user)))
    ELSE Raises("ValueError")

update(case_run_id, values, user, permitted) ==
    /\ call' = [op |-> "update", case_run_id |-> case_run_id,
                values |-> values, user |-> user, permitted |-> permitted]
    /\ IF ~permitted
       THEN /\ response' = Raises("PermissionDenied")
            /\ executions' = executions
       ELSE /\ response' = update_response(case_run_id, values, user)
            /\ executions' = update_executions(case_run_id, values, user)
    /\ UNCHANGED <<testcases, links, next_link_id, adapter, threads, caller>>

-----------------------------------------------------------------------------
(* The store after the application is set up: test cases exist, nothing    *)
(* has been executed or linked yet.                                        *)

DefaultCase ==
    [is_automated |-> FALSE, case_status |-> "CONFIRMED",
     priority |-> "P1", category |-> 1]

NoCall == [op |-> "none"]

InitStore ==
    /\ executions = <<>>
    /\ links = {}
    /\ next_link_id = 1
    /\ adapter = <<>>
    /\ threads = <<>>
    /\ caller = [pc |-> "idle"]
    /\ call = NoCall
    /\ response = Returns(None)

InitCrud ==
    /\ InitStore
    /\ testcases = [c \in Cases |-> DefaultCase]

-----------------------------------------------------------------------------
(* TestExecution.create on its own, with every kind of argument. *)

CreateValues ==
    {NotADict,
     Dict(NoValues),
     \* valid
     Dict([NoValues EXCEPT !.run = Some(1), !.case = Some(1),
                           !.build = Some(2)]),
     Dict([NoValues EXCEPT !.run = Some(1), !.case = Some(MaxCase),
                           !.build = Some(1), !.sortkey = Some(0)]),
     Dict([NoValues EXCEPT !.run = Some(MaxRun), !.case = Some(1),
                           !.build = Some(1), !.assignee = Some(2),
                           !.status = Some("PASSED")]),
     Dict([run |-> Some(MaxRun), case |-> Some(MaxCase), build |-> Some(2),
           assignee |-> Some(1), status |-> Some("FAILED"),
           case_text_version |-> Some(3), sortkey |-> Some(7)]),
     \* invalid
     Dict([NoValues EXCEPT !.run = Some(1), !.case = Some(MaxCase + 1),
                           !.build = Some(1)]),
     Dict([NoValues EXCEPT !.run = Some(1), !.case = Some(1)]),
     Dict([NoValues EXCEPT !.case = Some(1), !.build = Some(1)]),
     Dict([NoValues EXCEPT !.run = Some(1), !.case = Some(1),
                           !.build = Some(1), !.status = Some("BOGUS")]),
     Dict([NoValues EXCEPT !.sortkey = Some(0)])}

CreateRequests ==
    {<<values, TRUE>> : values \in CreateValues} \cup {<<NotADict, FALSE>>}

CreateOnly ==
    \E req \in CreateRequests : create(req[1], req[2], MaxCrudExecutions)

NextCreate == CreateOnly

SpecCreate == InitCrud /\ [][NextCreate]_vars

-----------------------------------------------------------------------------
(* TestExecution.update of the executions of one run. *)

UpdateCreateValues ==
    Dict([NoValues EXCEPT !.run = Some(1), !.case = Some(1),
                          !.build = Some(1), !.sortkey = Some(5)])

UpdateValues ==
    {NoValues,
     [NoValues EXCEPT !.build = Some(2)],
     [NoValues EXCEPT !.assignee = Some(2)],
     [NoValues EXCEPT !.status = Some("PASSED")],
     [NoValues EXCEPT !.sortkey = Some(0)],
     [NoValues EXCEPT !.status = Some("PASSED"), !.sortkey = Some(0)],
     [NoValues EXCEPT !.build = Some(2), !.assignee = Some(2),
                      !.status = Some("PASSED"), !.sortkey = Some(0)],
     \* invalid
     [NoValues EXCEPT !.build = Some(9)],
     [NoValues EXCEPT !.status = Some("BOGUS"), !.sortkey = Some(0)]}

UpdateRequests ==
    {<<values, TRUE>> : values \in UpdateValues}
    \cup {<<[NoValues EXCEPT !.sortkey = Some(0)], FALSE>>}

UpdateCreate == create(UpdateCreateValues, TRUE, MaxCrudExecutions)

UpdateAny ==
    \E case_run_id \in 1..(Len(executions) + 1), req \in UpdateRequests :
        update(case_run_id, req[1], 1, req[2])

NextUpdate == UpdateCreate \/ UpdateAny

SpecUpdate == InitCrud /\ [][NextUpdate]_vars

-----------------------------------------------------------------------------
(* tcms/telemetry/api.py: the queries over the TestExecution table *)

\* query: field lookups, None where the query has no such key
AllExecutions == [run_id |-> None, case_id |-> None]

ExecQueries ==
    {AllExecutions}
    \cup {[AllExecutions EXCEPT !.run_id = Some(r)] : r \in Runs}
    \cup {[AllExecutions EXCEPT !.case_id = Some(c)] : c \in Cases}

\* TestExecution.objects.filter(**query)
filter_executions(query) ==
    {te \in Range(executions) :
        /\ query.run_id # None => te.run_id = Value(query.run_id)
        /\ query.case_id # None => te.case_id = Value(query.case_id)}

EmptyDict == [k \in {} |-> 0]

\* d[k] = v
DictSet(d, k, v) ==
    [x \in DOMAIN d \cup {k} |-> IF x = k THEN v ELSE d[x]]

\* d.get(k, default)
DictGet(d, k, default) == IF k \in DOMAIN d THEN d[k] ELSE default

_append_status_counts_to_result(count, result) ==
    [status \in DOMAIN result |->
        IF status \in Range(chart_status_names)
        THEN Append(result[status], DictGet(count, status, 0))
        ELSE result[status]]

\* the loop of execution_trends over the executions ord[i..], st holding
\* run_id, count, categories and data_set
RECURSIVE execution_trends_loop(_, _, _)
execution_trends_loop(ord, i, st) ==
    IF i > Len(ord) THEN st
    ELSE LET test_execution == ord[i]
             status == color_code(test_execution.status)
         IN  IF test_execution.run_id = st.run_id
             THEN execution_trends_loop(ord, i + 1,
                      [st EXCEPT !.count =
                          IF status \in DOMAIN st.count
                          THEN DictSet(st.count, status, st.count[status] + 1)
                          ELSE DictSet(st.count, status, 1)])
             ELSE execution_trends_loop(ord, i + 1,
                      [run_id |-> test_execution.run_id,
                       count |-> EmptyDict,
                       categories |-> Append(st.categories,
                                             test_execution.run_id),
                       data_set |-> _append_status_counts_to_result(
                                        st.count, st.data_set)])

\* a plausible slip: the placeholder counts appended before the first run
\* are not removed
execution_trends_keeping_first_counts(ord) ==
    LET st == execution_trends_loop(ord, 1,
                  [run_id |-> 0,
                   count |-> EmptyDict,
                   categories |-> <<>>,
                   data_set |-> [c \in {color_code(n) : n \in StatusNames}
                                    |-> <<>>]])
        last == _append_status_counts_to_result(st.count, st.data_set)
    IN  [categories |-> st.categories,
         data_set |-> last]

\* execution_trends, for the executions in the order ord the query gave them
\* (the 'colors' entry of the result is left out)
execution_trends(ord) ==
    LET st == execution_trends_loop(ord, 1,
                  [run_id |-> 0,
                   count |-> EmptyDict,
                   categories |-> <<>>,
                   data_set |-> [c \in {color_code(n) : n \in StatusNames}
                                    |-> <<>>]])
        last == _append_status_counts_to_result(st.count, st.data_set)
    IN  [categories |-> st.categories,
         data_set |-> [c \in DOMAIN last |-> Tail(last[c])]]

ByRun(S) == [te \in S |-> <<te.run_id, 0>>]
ByCaseAndRun(S) == [te \in S |-> <<te.case_id, te.run_id>>]

ExecutionTrends ==
    \E query \in ExecQueries :
        \E ord \in OrderBy(filter_executions(query),
                           ByRun(filter_executions(query))) :
            /\ call' = [op |-> "execution_trends", query |-> query]
            /\ response' = Returns(execution_trends(ord))
            /\ UNCHANGED <<testcases, executions, links, next_link_id,
                           adapter, threads, caller>>

\* the loop of status_matrix, st holding data_set, columns and row
RECURSIVE status_matrix_loop(_, _, _)
status_matrix_loop(ord, i, st) ==
    IF i > Len(ord) THEN st
    ELSE LET test_execution == ord[i]
             columns == DictSet(st.columns, test_execution.run_id,
                                RunSummary(test_execution.run_id))
             test_execution_response ==
                 [pk |-> test_execution.pk,
                  class |-> color_code(test_execution.status),
                  run_id |-> test_execution.run_id]
         IN  IF test_execution.case_id = st.row.tc_id
             THEN status_matrix_loop(ord, i + 1,
                      [st EXCEPT !.columns = columns,
                                 !.row.executions =
                                     Append(@, test_execution_response)])
             ELSE status_matrix_loop(ord, i + 1,
                      [data_set |-> Append(st.data_set, st.row),
                       columns |-> columns,
                       row |-> [tc_id |-> test_execution.case_id,
                                tc_summary |->
                                    CaseSummary(test_execution.case_id),
                                executions |-> <<test_execution_response>>]])

\* a plausible slip: the placeholder row is not removed
status_matrix_keeping_first_row(ord) ==
    LET st == status_matrix_loop(ord, 1,
                  [data_set |-> <<>>,
                   columns |-> EmptyDict,
                   row |-> [tc_id |-> 0]])
    IN  [data |-> Append(st.data_set, st.row),
         columns |-> st.columns]

status_matrix(ord) ==
    LET st == status_matrix_loop(ord, 1,
                  [data_set |-> <<>>,
                   columns |-> EmptyDict,
                   row |-> [tc_id |-> 0]])
    IN  [data |-> Tail(Append(st.data_set, st.row)),
         columns |-> st.columns]

StatusMatrix ==
    \E query \in ExecQueries :
        \E ord \in OrderBy(filter_executions(query),
                           ByCaseAndRun(filter_executions(query))) :
            /\ call' = [op |-> "status_matrix", query |-> query]
            /\ response' = Returns(status_matrix(ord))
            /\ UNCHANGED <<testcases, executions, links, next_link_id,
                           adapter, threads, caller>>

\* the integers of S in ascending order
RECURSIVE SortedSeq(_)
SortedSeq(S) ==
    IF S = {} THEN <<>>
    ELSE LET m == CHOOSE x \in S : \A y \in S : x <= y
         IN  <<m>> \o SortedSeq(S \ {m})

\* values('case_id', 'case__summary').annotate(count=Count('case_id'))
\*     .order_by('case_id')
_get_count_for(test_executions) ==
    LET ids == SortedSeq({te.case_id : te \in test_executions})
    IN  [i \in DOMAIN ids |->
            [case_id |-> ids[i],
             case__summary |-> CaseSummary(ids[i]),
             count |-> Cardinality({te \in test_executions :
                                       te.case_id = ids[i]})]]

\* data is a dict keyed by case_id: here the sequence of its values in
\* insertion order
_count_test_executions(data, test_executions, status) ==
    [i \in DOMAIN data |->
        IF \E j \in DOMAIN test_executions :
               test_executions[j].case_id = data[i].case_id
        THEN LET te == test_executions[
                     CHOOSE j \in DOMAIN test_executions :
                         test_executions[j].case_id = data[i].case_id]
             IN  [data[i] EXCEPT !.count[status] = te.count]
        ELSE data[i]]

\* a plausible slip: nothing is removed
_keep_all_excellent_executions(data) == data

_remove_all_excellent_executions(data) ==
    SelectSeq(data, LAMBDA e : e.count.success # e.count.all)

\* _sort_by_passing_rate(a) <= _sort_by_passing_rate(b), the rates being
\* success / all with all >= 1
PassingRateLE(a, b) ==
    a.count.success * b.count.all <= b.count.success * a.count.all

\* list.sort(key=_sort_by_passing_rate): a stable sort
RECURSIVE SortByPassingRate(_)
SortByPassingRate(data) ==
    IF data = <<>> THEN <<>>
    ELSE LET n == Len(data)
             head == SortByPassingRate(SubSeq(data, 1, n - 1))
             e == data[n]
             \* e goes after every element whose rate is not greater
             before == {j \in DOMAIN head : PassingRateLE(head[j], e)}
             at == IF before = {} THEN 0
                   ELSE CHOOSE j \in before : \A x \in before : x <= j
         IN  SubSeq(head, 1, at) \o <<e>> \o SubSeq(head, at + 1, Len(head))

RECURSIVE _build_result_loop(_, _, _)
_build_result_loop(data, i, st) ==
    IF i > Len(data) \/ Len(st.result) > 30 THEN st
    ELSE LET element == data[i]
             success_count == element.count.success
         IN  IF success_count = 0 /\ st.zero_success_rate_count < 10
             THEN _build_result_loop(data, i + 1,
                      [st EXCEPT !.result = Append(@, element),
                                 !.zero_success_rate_count = @ + 1])
             ELSE IF 2 * success_count <= 1
                     /\ st.close_to_zero_rate_count < 10
             THEN _build_result_loop(data, i + 1,
                      [st EXCEPT !.result = Append(@, element),
                                 !.close_to_zero_rate_count = @ + 1])
             ELSE IF 2 * success_count > 1
                     /\ st.close_to_full_rate_count < 10
             THEN _build_result_loop(data, i + 1,
                      [st EXCEPT !.result = Append(@, element),
                                 !.close_to_full_rate_count = @ + 1])
             ELSE _build_result_loop(data, i + 1, st)

_build_result_from_data(data) ==
    _build_result_loop(data, 1,
        [result |-> <<>>,
         zero_success_rate_count |-> 0,
         close_to_zero_rate_count |-> 0,
         close_to_full_rate_count |-> 0]).result

test_case_health(query) ==
    LET all_test_executions == filter_executions(query)
        test_executions == _get_count_for(all_test_executions)
        passed_test_executions ==
            _get_count_for({te \in all_test_executions :
                               te.status \in passed_status_names})
        failed_test_executions ==
            _get_count_for({te \in all_test_executions :
                               te.status \in failure_status_names})
        data == [i \in DOMAIN test_executions |->
                    [case_id |-> test_executions[i].case_id,
                     case_summary |-> test_executions[i].case__summary,
                     count |-> [all |-> test_executions[i].count,
                                success |-> 0,
                                fail |-> 0]]]
        counted == _count_test_executions(
                       _count_test_executions(data, passed_test_executions,
                                              "success"),
                       failed_test_executions, "fail")
    IN  _build_result_from_data(
            SortByPassingRate(_remove_all_excellent_executions(counted)))

TestCaseHealth ==
    \E query \in ExecQueries :
        /\ call' = [op |-> "test_case_health", query |-> query]
        /\ response' = Returns(test_case_health(query))
        /\ UNCHANGED <<testcases, executions, links, next_link_id,
                       adapter, threads, caller>>

-----------------------------------------------------------------------------
(* The telemetry queries over the executions TestExecution.create stored. *)

ExecutionValues(run, case, status) ==
    Dict([NoValues EXCEPT !.run = Some(run), !.case = Some(case),
                          !.build = Some(1), !.status = Some(status)])

\* execution_trends: executions of several runs and statuses
TrendsCreate ==
    \E run \in Runs, status \in {"PASSED", "FAILED", "IDLE"} :
        create(ExecutionValues(run, 1, status), TRUE, MaxExecutions)

NextTrends == TrendsCreate \/ ExecutionTrends

SpecTrends == InitCrud /\ [][NextTrends]_vars

\* status_matrix: executions of several cases in several runs
MatrixCreate ==
    \E run \in Runs, case \in Cases :
        create(ExecutionValues(run, case, "PASSED"), TRUE, MaxExecutions)

NextMatrix == MatrixCreate \/ StatusMatrix

SpecMatrix == InitCrud /\ [][NextMatrix]_vars

\* test_case_health: executions of several cases and statuses
HealthCreate ==
    \E case \in Cases, status \in {"PASSED", "FAILED", "IDLE"} :
        create(ExecutionValues(1, case, status), TRUE, MaxExecutions)

NextHealth == HealthCreate \/ TestCaseHealth

SpecHealth == InitCrud /\ [][NextHealth]_vars

-----------------------------------------------------------------------------
(* tcms/telemetry/api.py: breakdown, over the TestCase table *)

CaseStatusNames == {"PROPOSED", "CONFIRMED", "DISABLED"}

\* TestCaseStatus.get_confirmed().name
ConfirmedName == "CONFIRMED"

\* Priority.value and Category.name, by primary key
PriorityValue == (1 :> "P1") @@ (2 :> "P2")
CategoryName == (1 :> "Regression") @@ (2 :> "Sanity")

CaseRows ==
    [is_automated : BOOLEAN,
     case_status : CaseStatusNames,
     priority : DOMAIN PriorityValue,
     category : DOMAIN CategoryName]

AllCases == [is_automated |-> None, priority |-> None, category |-> None]

CaseQueries ==
    {AllCases,
     [AllCases EXCEPT !.is_automated = Some(TRUE)],
     [AllCases EXCEPT !.priority = Some(1)],
     [AllCases EXCEPT !.category = Some(2)]}

\* TestCase.objects.filter(**query).filter(): the primary keys selected
filter_testcases(query) ==
    {pk \in DOMAIN testcases :
        /\ query.is_automated # None
               => testcases[pk].is_automated = Value(query.is_automated)
        /\ query.priority # None
               => testcases[pk].priority = Value(query.priority)
        /\ query.category # None
               => testcases[pk].category = Value(query.category)}

\* the value of the related field `field` of test case pk
FieldOf(pk, field) ==
    IF field = "priority__value"
    THEN PriorityValue[testcases[pk].priority]
    ELSE CategoryName[testcases[pk].category]

\* test_cases.values(field).annotate(count=Count(expression)): one entry
\* per value of the field, with the number of test cases that have it
values_annotate_count(test_cases, field) ==
    {[value |-> v,
      count |-> Cardinality({pk \in test_cases : FieldOf(pk, field) = v})] :
        v \in {FieldOf(pk, field) : pk \in test_cases}}

_map_query_set(query_set) ==
    [v \in {entry.value : entry \in query_set} |->
        (CHOOSE entry \in query_set : entry.value = v).count]

\* a plausible slip: the second query filters where it should exclude
_get_field_count_map_filtering_twice(test_cases, field) ==
    LET query_set_confirmed ==
            values_annotate_count(
                {pk \in test_cases :
                    testcases[pk].case_status = ConfirmedName}, field)
    IN  (ConfirmedName :> _map_query_set(query_set_confirmed))
        @@ ("OTHER" :> _map_query_set(query_set_confirmed))

_get_field_count_map(test_cases, field) ==
    LET query_set_confirmed ==
            values_annotate_count(
                {pk \in test_cases :
                    testcases[pk].case_status = ConfirmedName}, field)
        query_set_not_confirmed ==
            values_annotate_count(
                {pk \in test_cases :
                    testcases[pk].case_status # ConfirmedName}, field)
    IN  (ConfirmedName :> _map_query_set(query_set_confirmed))
        @@ ("OTHER" :> _map_query_set(query_set_not_confirmed))

breakdown(query) ==
    LET test_cases == filter_testcases(query)
        manual_count ==
            Cardinality({pk \in test_cases : testcases[pk].is_automated = FALSE})
        automated_count ==
            Cardinality({pk \in test_cases : testcases[pk].is_automated = TRUE})
    IN  [count |-> [manual |-> manual_count,
                    automated |-> automated_count,
                    all |-> manual_count + automated_count],
         priorities |-> _get_field_count_map(test_cases, "priority__value"),
         categories |-> _get_field_count_map(test_cases, "category__name")]

Breakdown ==
    \E query \in CaseQueries :
        /\ call' = [op |-> "breakdown", query |-> query]
        /\ response' = Returns(breakdown(query))
        /\ UNCHANGED <<testcases, executions, links, next_link_id,
                       adapter, threads, caller>>

\* the TestCase table holds any test cases
InitBreakdown ==
    /\ InitStore
    /\ testcases \in UNION {[1..n -> CaseRows] : n \in 0..MaxCase}

NextBreakdown == Breakdown

SpecBreakdown == InitBreakdown /\ [][NextBreakdown]_vars

-----------------------------------------------------------------------------
(* tcms/xmlrpc/api/testexecution.py: add_link, remove_link and get_links *)

LinkNames == {"log"}
LinkUrls == {"http://a", "http://b"}

\* the LinkReference rows with these field values
links_with(case_run_id, name, url) ==
    {link \in links :
        /\ link.execution_id = case_run_id
        /\ link.name = name
        /\ link.url = url}

\* LinkReference.objects.create(execution_id=..., name=..., url=...)
new_link(case_run_id, name, url) ==
    [id |-> next_link_id,
     execution_id |-> case_run_id,
     name |-> name,
     url |-> url]

\* django.forms.models.model_to_dict
model_to_dict(link) ==
    [id |-> link.id,
     execution |-> link.execution_id,
     name |-> link.name,
     url |-> link.url]

\* a plausible slip: objects.create where get_or_create is meant
add_link_always_creating(case_run_id, name, url) ==
    links \cup {new_link(case_run_id, name, url)}

\* the LinkReference table after get_or_create
add_link_links(case_run_id, name, url) ==
    IF links_with(case_run_id, name, url) = {}
    THEN links \cup {new_link(case_run_id, name, url)}
    ELSE links

add_link_response(case_run_id, name, url) ==
    LET found == links_with(case_run_id, name, url)
    IN  IF Cardinality(found) > 1 THEN Raises("MultipleObjectsReturned")
        ELSE LET link == IF found = {}
                         THEN new_link(case_run_id, name, url)
                         ELSE CHOOSE l \in found : TRUE
                 response_dict == model_to_dict(link)
             IN  Returns([id |-> response_dict.id,
                          execution |-> response_dict.execution,
                          name |-> response_dict.name,
                          url |-> response_dict.url,
                          rc |-> 0])

add_link(case_run_id, name, url) ==
    /\ links_with(case_run_id, name, url) = {} => next_link_id <= MaxLinkId
    /\ call' = [op |-> "add_link", case_run_id |-> case_run_id,
                name |-> name, url |-> url]
    /\ response' = add_link_response(case_run_id, name, url)
    /\ links' = IF Cardinality(links_with(case_run_id, name, url)) > 1
                THEN links
                ELSE add_link_links(case_run_id, name, url)
    /\ next_link_id' = IF links' = links THEN next_link_id
                       ELSE next_link_id + 1
    /\ UNCHANGED <<testcases, executions, adapter, threads, caller>>

\* query: field lookups for LinkReference, None where the query has no key
AllLinks == [pk |-> None, execution_id |-> None, name |-> None, url |-> None]

\* LinkReference.objects.filter(**query)
filter_links(query) ==
    {link \in links :
        /\ query.pk # None => link.id = Value(query.pk)
        /\ query.execution_id # None
               => link.execution_id = Value(query.execution_id)
        /\ query.name # None => link.name = Value(query.name)
        /\ query.url # None => link.url = Value(query.url)}

\* a plausible slip: the query is not applied
remove_link_ignoring_query(query) == {}

\* the LinkReference table after filter(**query).delete()
remove_link_links(query) == links \ filter_links(query)

remove_link(query) ==
    /\ call' = [op |-> "remove_link", query |-> query]
    /\ response' = Returns(None)
    /\ links' = remove_link_links(query)
    /\ UNCHANGED <<testcases, executions, next_link_id, adapter, threads,
                   caller>>

\* XMLRPCSerializer(links).serialize_queryset(), one dict per row
serialize_link(link) ==
    [id |-> link.id,
     execution_id |-> link.execution_id,
     name |-> link.name,
     url |-> link.url]

\* LinkReference.objects.filter(execution=case_run_id)
get_links_queryset(case_run_id) ==
    {link \in links : link.execution_id = case_run_id}

Unordered(S) == [link \in S |-> <<0, 0>>]

\* the rows come back in whatever order the database gives them
get_links(case_run_id) ==
    \E ord \in OrderBy(get_links_queryset(case_run_id),
                       Unordered(get_links_queryset(case_run_id))) :
        /\ call' = [op |-> "get_links", case_run_id |-> case_run_id]
        /\ response' = Returns([i \in DOMAIN ord |-> serialize_link(ord[i])])
        /\ UNCHANGED <<testcases, executions, links, next_link_id, adapter,
                       threads, caller>>

LinkQueries ==
    {AllLinks}
    \cup {[AllLinks EXCEPT !.pk = Some(pk)] : pk \in 1..MaxLinkId}
    \cup {[AllLinks EXCEPT !.execution_id = Some(e)] :
             e \in 1..MaxCrudExecutions}
    \cup {[AllLinks EXCEPT !.execution_id = Some(1), !.url = Some(u)] :
             u \in LinkUrls}

LinksCreate == create(UpdateCreateValues, TRUE, MaxCrudExecutions)

AddLink ==
    \E case_run_id \in DOMAIN executions, name \in LinkNames,
       url \in LinkUrls :
        add_link(case_run_id, name, url)

RemoveLink == \E query \in LinkQueries : remove_link(query)

GetLinks == \E case_run_id \in DOMAIN executions : get_links(case_run_id)

NextLinks == LinksCreate \/ AddLink \/ RemoveLink \/ GetLinks

SpecLinks == InitCrud /\ [][NextLinks]_vars

-----------------------------------------------------------------------------
(* tcms/issuetracker/types.py: the adapters and add_testcase_to_issue *)

TrackerTypes == {"Bugzilla", "JIRA", "GitHub", "Gitlab", "Redmine", "LinkOnly"}

\* the BugSystem rows an adapter can be built for; "" is a blank field
Trackers ==
    [base_url : {"", "http://it", "http://it/"},
     api_url : {"", "http://it/api"},
     api_username : {"", "kiwi"},
     api_password : {"", "secret"}]

Issues == {7, 8}

\* a plausible slip: GitHub and Gitlab do not override the base class rule
is_adding_testcase_to_issue_disabled_not_overridden(kind, tracker) ==
    IF kind = "LinkOnly" THEN TRUE
    ELSE ~(/\ tracker.api_url # ""
           /\ tracker.api_username # ""
           /\ tracker.api_password # "")

is_adding_testcase_to_issue_disabled(kind, tracker) ==
    IF kind = "LinkOnly" THEN TRUE
    ELSE IF kind \in {"GitHub", "Gitlab"}
    THEN ~(tracker.base_url # "" /\ tracker.api_password # "")
    ELSE ~(/\ tracker.api_url # ""
           /\ tracker.api_username # ""
           /\ tracker.api_password # "")

\* whether the adapter __init__ built has an rpc attribute: Bugzilla has the
\* rpc property, GitHub and Gitlab always assign it, JIRA and Redmine assign
\* it only when adding test cases is not disabled, the base class never
has_rpc(kind, tracker) ==
    IF kind \in {"Bugzilla", "GitHub", "Gitlab"} THEN TRUE
    ELSE IF kind \in {"JIRA", "Redmine"}
    THEN ~is_adding_testcase_to_issue_disabled(kind, tracker)
    ELSE FALSE

\* IssueTrackerType.from_name(kind)(tracker)
Construct ==
    \E kind \in TrackerTypes, tracker \in Trackers :
        /\ adapter = <<>>
        /\ adapter' = <<[kind |-> kind, tracker |-> tracker,
                         has_rpc |-> has_rpc(kind, tracker)]>>
        /\ UNCHANGED <<testcases, executions, links, next_link_id, threads,
                       caller, call, response>>

\* the lists of test cases add_testcase_to_issue is called with
TestcaseLists == UNION {[1..n -> Cases] : n \in 0..MaxTestcases}

\* the caller enters add_testcase_to_issue(testcases, issue)
CallAddTestcaseToIssue ==
    \E tcs \in TestcaseLists, issue \in Issues :
        /\ adapter # <<>>
        /\ caller.pc = "idle"
        /\ caller' = [pc |-> "loop", testcases |-> tcs, issue |-> issue,
                      i |-> 1]
        /\ call' = [op |-> "add_testcase_to_issue", testcases |-> tcs,
                    issue |-> issue]
        /\ UNCHANGED <<testcases, executions, links, next_link_id, adapter,
                       threads, response>>

\* BugzillaThread(self.rpc, case, issue) and the like
new_thread(kind, case, issue) ==
    [kind |-> kind, case |-> case, issue |-> issue, state |-> "started"]

\* one iteration of `for case in testcases`: the thread is created and
\* started, or creating it raises
StartThread ==
    /\ caller.pc = "loop"
    /\ caller.i <= Len(caller.testcases)
    /\ adapter[1].kind # "LinkOnly"
    /\ IF adapter[1].has_rpc
       THEN /\ threads' = Append(threads,
                              new_thread(adapter[1].kind,
                                         caller.testcases[caller.i],
                                         caller.issue))
            /\ caller' = [caller EXCEPT !.i = @ + 1]
            /\ UNCHANGED response
       ELSE /\ caller' = [caller EXCEPT !.pc = "raised"]
            /\ response' = Raises("AttributeError")
            /\ UNCHANGED threads
    /\ UNCHANGED <<testcases, executions, links, next_link_id, adapter, call>>

\* the base class method, which LinkOnly inherits
RaiseNotImplemented ==
    /\ caller.pc = "loop"
    /\ adapter[1].kind = "LinkOnly"
    /\ caller' = [caller EXCEPT !.pc = "raised"]
    /\ response' = Raises("NotImplementedError")
    /\ UNCHANGED <<testcases, executions, links, next_link_id, adapter,
                   threads, call>>

\* a plausible slip: the caller joins the threads it started
ReturnAfterJoin ==
    /\ caller.i > Len(caller.testcases)
    /\ \A t \in DOMAIN threads : threads[t].state = "finished"

\* the for loop is exhausted: nothing is left to do before returning
LoopDone == caller.i > Len(caller.testcases)

Return ==
    /\ caller.pc = "loop"
    /\ adapter[1].kind # "LinkOnly"
    /\ LoopDone
    /\ caller' = [caller EXCEPT !.pc = "returned"]
    /\ response' = Returns(None)
    /\ UNCHANGED <<testcases, executions, links, next_link_id, adapter,
                   threads, call>>

\* a started thread runs to its end, at any time
ThreadFinish ==
    \E t \in DOMAIN threads :
        /\ threads[t].state = "started"
        /\ threads' = [threads EXCEPT ![t].state = "finished"]
        /\ UNCHANGED <<testcases, executions, links, next_link_id, adapter,
                       caller, call, response>>

NextThreads ==
    \/ Construct
    \/ CallAddTestcaseToIssue
    \/ StartThread
    \/ RaiseNotImplemented
    \/ Return
    \/ ThreadFinish

SpecThreads == InitCrud /\ [][NextThreads]_vars

-----------------------------------------------------------------------------
(* tcms/issuetracker/types.py: from_name, the credentials rule,            *)
(* all_issues_link and bug_id_from_url.  A str is a TLA+ string.           *)

MaxIds == 2

\* the names bound at module level: the imports, RE_ENDS_IN_INT, the classes
\* and the names every module has
ImportedModules ==
    {"os", "re", "tempfile", "jira", "github", "bugzilla", "gitlab",
     "redminelib", "bugzilla_integration", "jira_integration",
     "github_integration", "gitlab_integration", "redmine_integration"}

ImportedFunctions == {"urlencode", "quote"}

ModuleAttributes == {"__name__", "__doc__", "__file__"}

IssueTrackerClasses == {"IssueTrackerType"} \cup TrackerTypes

globals ==
    [n \in ImportedModules \cup ImportedFunctions \cup ModuleAttributes
           \cup {"settings", "RE_ENDS_IN_INT"} \cup IssueTrackerClasses |->
        [type |-> IF n \in ImportedModules THEN "module"
                  ELSE IF n \in ImportedFunctions THEN "function"
                  ELSE IF n \in ModuleAttributes THEN "str"
                  ELSE IF n = "settings" THEN "LazySettings"
                  ELSE IF n = "RE_ENDS_IN_INT" THEN "Pattern"
                  ELSE "class",
         name |-> n]]

from_name(name) ==
    IF name \notin DOMAIN globals
    THEN Raises("NotImplementedError")
    ELSE Returns(globals[name])

\* the names from_name is asked for
Names == DOMAIN globals \cup {"Trac", "Mantis", "jIRA"}

FromName ==
    \E name \in Names :
        /\ call' = [op |-> "from_name", name |-> name]
        /\ response' = from_name(name)
        /\ UNCHANGED <<testcases, executions, links, next_link_id, adapter,
                       threads, caller>>

IsAddingTestcaseToIssueDisabled ==
    /\ adapter # <<>>
    /\ call' = [op |-> "is_adding_testcase_to_issue_disabled"]
    /\ response' = Returns(is_adding_testcase_to_issue_disabled(
                               adapter[1].kind, adapter[1].tracker))
    /\ UNCHANGED <<testcases, executions, links, next_link_id, adapter,
                   threads, caller>>

\* str.endswith
endswith(s, suffix) ==
    /\ Len(s) >= Len(suffix)
    /\ SubSeq(s, Len(s) - Len(suffix) + 1, Len(s)) = suffix

\* sep.join(ids)
RECURSIVE join(_, _)
join(sep, ids) ==
    IF ids = <<>> THEN ""
    ELSE IF Len(ids) = 1 THEN ids[1]
    ELSE ids[1] \o sep \o join(sep, Tail(ids))

\* a plausible slip: the '/' is appended without looking at the end
always_adding_slash(base_url) == base_url \o "/"

\* if not base_url.endswith('/'): base_url += '/'
with_trailing_slash(base_url) ==
    IF ~endswith(base_url, "/") THEN base_url \o "/" ELSE base_url

\* the URL text around the joined ids, and what joins them; (U+2713) stands
\* for the one non-ASCII character of the Redmine query, a check mark
list_path_head(kind) ==
    CASE kind = "Bugzilla" -> "buglist.cgi?bugidtype=include&bug_id="
      [] kind = "JIRA" -> "issues/?jql=issueKey%20in%20("
      [] kind = "Redmine" ->
             "issues?utf8=(U+2713)&set_filter=1&sort=id%3Adesc&f%5B%5D=issue_id"
             \o "&op%5Bissue_id%5D=%3D&v%5Bissue_id%5D%5B%5D="

list_path_tail(kind) ==
    CASE kind = "Bugzilla" -> ""
      [] kind = "JIRA" -> ")"
      [] kind = "Redmine" ->
             "&f%5B%5D=&c%5B%5D=tracker&c%5B%5D=status&c%5B%5D=priority"
             \o "&c%5B%5D=subject&c%5B%5D=assigned_to&c%5B%5D=updated_on"
             \o "&group_by=&t%5B%5D="

list_separator(kind) ==
    CASE kind = "Bugzilla" -> ","
      [] kind = "JIRA" -> "%2C%20"
      [] kind = "Redmine" -> "%2C"

\* all_issues_link(ids): what it returns and the tracker row it leaves; the
\* base class method, which GitHub, Gitlab and LinkOnly inherit, has no body
all_issues_link(kind, tracker, ids) ==
    IF kind \notin {"Bugzilla", "JIRA", "Redmine"}
    THEN [result |-> None, tracker |-> tracker]
    ELSE IF tracker.base_url = ""
    THEN [result |-> None, tracker |-> tracker]
    ELSE LET base_url == with_trailing_slash(tracker.base_url)
         IN  [result |-> Some(base_url \o list_path_head(kind)
                              \o join(list_separator(kind), ids)
                              \o list_path_tail(kind)),
              tracker |-> [tracker EXCEPT !.base_url = base_url]]

\* the lists of issue ids all_issues_link is called with
IssueIds == {"7", "8"}

IdLists == UNION {[1..n -> IssueIds] : n \in 0..MaxIds}

AllIssuesLink ==
    \E ids \in IdLists :
        /\ adapter # <<>>
        /\ LET r == all_issues_link(adapter[1].kind, adapter[1].tracker, ids)
           IN  /\ response' = Returns(r.result)
               /\ adapter' = <<[adapter[1] EXCEPT !.tracker = r.tracker]>>
        /\ call' = [op |-> "all_issues_link", ids |-> ids]
        /\ UNCHANGED <<testcases, executions, links, next_link_id, threads,
                       caller>>

\* str.strip() removes whitespace at both ends
Whitespace == {" ", "\t", "\n"}

last_char(s) == SubSeq(s, Len(s), Len(s))

but_last(s) == SubSeq(s, 1, Len(s) - 1)

RECURSIVE lstrip(_)
lstrip(s) ==
    IF s # "" /\ Head(s) \in Whitespace THEN lstrip(Tail(s)) ELSE s

RECURSIVE rstrip(_)
rstrip(s) ==
    IF s # "" /\ last_char(s) \in Whitespace THEN rstrip(but_last(s)) ELSE s

strip(s) == rstrip(lstrip(s))

Digits == <<"0", "1", "2", "3", "4", "5", "6", "7", "8", "9">>

\* the text [\d]+$ matches: the digits the string ends in
RECURSIVE digits_at_end(_)
digits_at_end(s) ==
    IF s # "" /\ last_char(s) \in Range(Digits)
    THEN digits_at_end(but_last(s)) \o last_char(s)
    ELSE ""

\* RE_ENDS_IN_INT.search(s): a match, or None when s does not end in a digit
RE_ENDS_IN_INT_search(s) ==
    IF digits_at_end(s) = "" THEN None ELSE Some(digits_at_end(s))

\* int(s) for a string of digits
RECURSIVE int(_)
int(s) ==
    IF s = "" THEN 0
    ELSE int(but_last(s)) * 10
         + (CHOOSE d \in 0..9 : Digits[d + 1] = last_char(s))

\* s.split(sep)[-1]
RECURSIVE split_last(_, _)
split_last(s, sep) ==
    IF s = "" \/ last_char(s) = sep THEN ""
    ELSE split_last(but_last(s), sep) \o last_char(s)

\* the default bug_id_from_url: .group(0) of None raises AttributeError
IssueTrackerType_bug_id_from_url(url) ==
    LET match == RE_ENDS_IN_INT_search(strip(url))
    IN  IF match = None
        THEN Raises("AttributeError")
        ELSE Returns(int(Value(match)))

JIRA_bug_id_from_url(url) == Returns(split_last(strip(url), "/"))

bug_id_from_url(kind, url) ==
    IF kind = "JIRA"
    THEN JIRA_bug_id_from_url(url)
    ELSE IssueTrackerType_bug_id_from_url(url)

\* the urls bug_id_from_url is called with
Urls ==
    {"http://it/show_bug.cgi?id=12",
     " http://it/issues/7\n",
     "http://it/issues/007",
     "http://it/browse/JENKINS-31044",
     "http://it/issues/7/",
     "KIWI-2",
     "  ",
     ""}

BugIdFromUrl ==
    \E url \in Urls :
        /\ adapter # <<>>
        /\ call' = [op |-> "bug_id_from_url", url |-> url]
        /\ response' = bug_id_from_url(adapter[1].kind, url)
        /\ UNCHANGED <<testcases, executions, links, next_link_id, adapter,
                       threads, caller>>

NextAdapters ==
    \/ Construct
    \/ FromName
    \/ IsAddingTestcaseToIssueDisabled
    \/ AllIssuesLink
    \/ BugIdFromUrl

SpecAdapters == InitCrud /\ [][NextAdapters]_vars

-----------------------------------------------------------------------------
(* Claims about TestExecution.create and TestExecution.update *)

CreateFormValid(values) ==
    /\ values.is_dict
    /\ ~IsEmptyDict(values.d)
    /\ XMLRPCNewExecutionForm_is_valid(values.d)

\* what create answers, for a caller that holds the permission
C5_Response ==
    (call.op = "create" /\ call.permitted) =>
        /\ ~call.values.is_dict => response.exc = "TypeError"
        /\ (call.values.is_dict /\ IsEmptyDict(call.values.d))
               => response.exc = "ValueError"
        /\ (call.values.is_dict /\ ~XMLRPCNewExecutionForm_is_valid(call.values.d))
               => response.exc = "ValueError"
        /\ CreateFormValid(call.values) =>
               LET cleaned == XMLRPCNewExecutionForm_cleaned_data(call.values.d)
                   te == executions[Len(executions)]
               IN  /\ response.exc = ""
                   /\ response.value = serialize(te)
                   /\ te.pk = Len(executions)
                   /\ te.run_id = Value(cleaned.run)
                   /\ te.case_id = Value(cleaned.case)
                   /\ te.build = Value(cleaned.build)
                   /\ te.assignee = cleaned.assignee
                   /\ te.status = Value(cleaned.status)
                   /\ te.case_text_version = Value(cleaned.case_text_version)
                   /\ te.sortkey = cleaned.sortkey

\* what create does to the TestExecution table
C5_Step ==
    call'.op = "create" =>
        IF call'.permitted /\ CreateFormValid(call'.values)
        THEN /\ Len(executions') = Len(executions) + 1
             /\ SubSeq(executions', 1, Len(executions)) = executions
             /\ executions'[Len(executions')].run_id =
                    Value(call'.values.d.run)
        ELSE executions' = executions

\* C5: TestExecution.create raises TypeError when values is not a dict,
\* ValueError when values is an empty dict or the form is invalid, and adds
\* no TestExecution in these cases; with a valid form it adds exactly one
\* TestExecution to the given run, with the cleaned case, build, assignee,
\* status, case_text_version and sortkey, and returns its serialization.
C5_Create == [](C5_Response) /\ [][C5_Step]_vars

\* a valid create added a second execution, with the cleaned status and
\* sortkey, and returned its serialization
C5_Witness ==
    /\ call.op = "create"
    /\ call.permitted
    /\ CreateFormValid(call.values)
    /\ call.values.d.sortkey = Some(7)
    /\ call.values.d.status = Some("FAILED")
    /\ Len(executions) = 2
    /\ response.exc = ""
    /\ response.value.case_run_id = 2

UpdateApplies(c) ==
    /\ c.op = "update"
    /\ c.permitted
    /\ c.case_run_id \in DOMAIN executions

\* the effect of a valid update on the table
C6_Step ==
    (UpdateApplies(call') /\ XMLRPCUpdateExecutionForm_is_valid(call'.values)) =>
        LET v == call'.values
            old == executions[call'.case_run_id]
            new == executions'[call'.case_run_id]
        IN  /\ response'.exc = ""
            /\ Len(executions') = Len(executions)
            /\ \A pk \in DOMAIN executions :
                   pk # call'.case_run_id => executions'[pk] = executions[pk]
            /\ new.build = (IF v.build # None THEN Value(v.build) ELSE old.build)
            /\ new.assignee =
                   (IF v.assignee # None THEN v.assignee ELSE old.assignee)
            /\ new.status =
                   (IF v.status # None THEN Value(v.status) ELSE old.status)
            /\ new.sortkey =
                   (IF v.sortkey # None THEN v.sortkey ELSE old.sortkey)
            /\ new.tested_by =
                   (IF v.status # None THEN Some(call'.user) ELSE old.tested_by)
            /\ new.pk = old.pk
            /\ new.run_id = old.run_id
            /\ new.case_id = old.case_id
            /\ new.case_text_version = old.case_text_version

\* C6: TestExecution.update with a valid form replaces build, assignee and
\* status only when a value is supplied, replaces sortkey whenever it is not
\* None (0 included), sets tested_by to the requesting user exactly when a
\* status is supplied, and leaves every other field and every other
\* execution unchanged.
C6_UpdateFrame == [][C6_Step]_vars

\* sortkey 0 and a status were supplied for the first of two executions
C6_Witness ==
    /\ call.op = "update"
    /\ call.permitted
    /\ response.exc = ""
    /\ Len(executions) = 2
    /\ call.case_run_id = 1
    /\ call.values.sortkey = Some(0)
    /\ call.values.status = Some("PASSED")
    /\ call.values.build = None
    /\ executions[1].sortkey = Some(0)
    /\ executions[1].tested_by = Some(call.user)
    /\ executions[1].build = 2
    /\ executions[2].sortkey = Some(5)

C7_Step ==
    (UpdateApplies(call') /\ ~XMLRPCUpdateExecutionForm_is_valid(call'.values)) =>
        /\ response'.exc = "ValueError"
        /\ executions' = executions

\* C7: TestExecution.update with values that fail form validation raises
\* ValueError and leaves the stored TestExecution unchanged.
C7_UpdateInvalid == [][C7_Step]_vars

\* an invalid update that supplied a sortkey was refused
C7_Witness ==
    /\ call.op = "update"
    /\ call.permitted
    /\ call.case_run_id \in DOMAIN executions
    /\ ~XMLRPCUpdateExecutionForm_is_valid(call.values)
    /\ call.values.sortkey = Some(0)
    /\ response.exc = "ValueError"
    /\ executions[call.case_run_id].sortkey = Some(5)

-----------------------------------------------------------------------------
(* Claims about the telemetry endpoints *)

\* the executions matching the query of the last request
Matching == filter_executions(call.query)

\* C1: Testing.execution_trends: for every run id at index i of 'categories'
\* and every chart status s, data_set[s][i] is the number of matching
\* executions of that run whose status charts as s.
C1_TrendCounts ==
    call.op = "execution_trends" =>
        LET categories == response.value.categories
            data_set == response.value.data_set
        IN  \A i \in DOMAIN categories :
                \A s \in Range(chart_status_names) :
                    data_set[s][i] =
                        Cardinality({te \in Matching :
                                        /\ te.run_id = categories[i]
                                        /\ color_code(te.status) = s})

\* C2: Testing.status_matrix: 'data' has exactly one row per distinct test
\* case with a matching execution, in ascending case id order; each row's
\* 'executions' lists that case's matching executions in ascending run id
\* order; every matching execution appears in exactly one row exactly once;
\* when nothing matches 'data' is empty.
C2_StatusMatrix ==
    call.op = "status_matrix" =>
        LET data == response.value.data
            entries == {<<i, j>> \in (DOMAIN data) \X (1..(Len(executions) + 1)) :
                            j \in DOMAIN data[i].executions}
        IN  /\ {data[i].tc_id : i \in DOMAIN data}
                   = {te.case_id : te \in Matching}
            /\ \A i, j \in DOMAIN data : i < j => data[i].tc_id < data[j].tc_id
            /\ \A i \in DOMAIN data :
                   LET row == data[i].executions
                   IN  /\ \A a, b \in DOMAIN row :
                              a < b => row[a].run_id <= row[b].run_id
                       /\ \A a \in DOMAIN row :
                              \E te \in Matching :
                                  /\ te.pk = row[a].pk
                                  /\ te.case_id = data[i].tc_id
                                  /\ te.run_id = row[a].run_id
            /\ \A te \in Matching :
                   Cardinality({e \in entries :
                                   data[e[1]].executions[e[2]].pk = te.pk}) = 1
            /\ Matching = {} => data = <<>>

\* two cases matched, one of them with two executions in the same row
C2_Witness ==
    /\ call.op = "status_matrix"
    /\ Len(response.value.data) = 2
    /\ Len(response.value.data[1].executions) = 2
    /\ response.value.data[1].executions[1].run_id
           < response.value.data[1].executions[2].run_id
    /\ Cardinality(Matching) = 3

\* C4: Testing.test_case_health: no returned element is a test case whose
\* success count equals its total execution count; every returned element
\* has count.all >= 1 and count.success + count.fail <= count.all; the list
\* is in non-decreasing order of success / all.
C4_TestCaseHealth ==
    call.op = "test_case_health" =>
        LET result == response.value
        IN  /\ \A i \in DOMAIN result :
                   LET of_case == {te \in Matching :
                                      te.case_id = result[i].case_id}
                       passed == {te \in of_case :
                                     te.status \in passed_status_names}
                   IN  /\ result[i].count.success # result[i].count.all
                       /\ Cardinality(passed) # Cardinality(of_case)
                       /\ result[i].count.all >= 1
                       /\ result[i].count.success + result[i].count.fail
                              <= result[i].count.all
            /\ \A i, j \in DOMAIN result :
                   i < j =>
                       result[i].count.success * result[j].count.all
                           <= result[j].count.success * result[i].count.all

\* of two cases with matching executions, the one whose executions all
\* passed was left out, and the one with a passed and a failed execution
\* was returned
C4_Witness ==
    /\ call.op = "test_case_health"
    /\ Len(response.value) = 1
    /\ response.value[1].count.success = 1
    /\ response.value[1].count.fail = 1
    /\ response.value[1].count.all = 2
    /\ Cardinality({te.case_id : te \in Matching}) = 2

\* the test cases selected by the query of the last request
Selected == filter_testcases(call.query)

\* the counts of one of the maps of 'priorities' or 'categories': every
\* value has the number of the test cases in S that carry it
CountsOf(map, S, field) ==
    /\ DOMAIN map = {FieldOf(pk, field) : pk \in S}
    /\ \A v \in DOMAIN map :
           map[v] = Cardinality({pk \in S : FieldOf(pk, field) = v})

C3_FieldCounts(maps, field) ==
    /\ CountsOf(maps["CONFIRMED"],
                {pk \in Selected : testcases[pk].case_status = "CONFIRMED"},
                field)
    /\ CountsOf(maps["OTHER"],
                {pk \in Selected : testcases[pk].case_status # "CONFIRMED"},
                field)
    /\ Sum(maps["CONFIRMED"], DOMAIN maps["CONFIRMED"])
           + Sum(maps["OTHER"], DOMAIN maps["OTHER"]) = Cardinality(Selected)

\* C3: Testing.breakdown: count.manual and count.automated are the numbers
\* of selected test cases with is_automated false and true, count.all is
\* their sum and the number of selected test cases; in 'priorities' and in
\* 'categories' every selected test case is counted exactly once, under the
\* confirmed map if its status is CONFIRMED and under OTHER otherwise, so
\* the counts of both maps sum to count.all.
C3_Breakdown ==
    call.op = "breakdown" =>
        LET r == response.value
        IN  /\ r.count.manual =
                   Cardinality({pk \in Selected : ~testcases[pk].is_automated})
            /\ r.count.automated =
                   Cardinality({pk \in Selected : testcases[pk].is_automated})
            /\ r.count.all = r.count.manual + r.count.automated
            /\ r.count.all = Cardinality(Selected)
            /\ C3_FieldCounts(r.priorities, "priority__value")
            /\ C3_FieldCounts(r.categories, "category__name")

\* two test cases of priority P1 were selected, of different categories: a
\* confirmed one and one that is not confirmed, one manual and one automated
C3_Witness ==
    /\ call.op = "breakdown"
    /\ call.query.priority = Some(1)
    /\ Cardinality(Selected) = 2
    /\ response.value.count.manual = 1
    /\ response.value.count.automated = 1
    /\ response.value.priorities["CONFIRMED"] = ("P1" :> 1)
    /\ response.value.priorities["OTHER"] = ("P1" :> 1)
    /\ DOMAIN response.value.categories["CONFIRMED"]
           # DOMAIN response.value.categories["OTHER"]

\* C15: Testing.execution_trends: 'categories' lists each run id that has a
\* matching execution exactly once, in ascending order; for every chart
\* status the list data_set[status] has exactly len(categories) entries;
\* when no execution matches, 'categories' and every data_set list are
\* empty.
C15_TrendShape ==
    call.op = "execution_trends" =>
        LET categories == response.value.categories
            data_set == response.value.data_set
        IN  /\ Range(categories) = {te.run_id : te \in Matching}
            /\ \A i, j \in DOMAIN categories :
                   i < j => categories[i] < categories[j]
            /\ \A s \in Range(chart_status_names) :
                   Len(data_set[s]) = Len(categories)
            /\ Matching = {} =>
                   /\ categories = <<>>
                   /\ \A s \in DOMAIN data_set : data_set[s] = <<>>

\* three executions of two runs matched: two categories, two counts per
\* chart status
C15_Witness ==
    /\ call.op = "execution_trends"
    /\ Cardinality(Matching) = 3
    /\ response.value.categories = <<1, 2>>
    /\ \A s \in Range(chart_status_names) :
           Len(response.value.data_set[s]) = 2

-----------------------------------------------------------------------------
(* Claims about the links of a TestExecution *)

SameTriple(a, b) ==
    /\ a.execution_id = b.execution_id
    /\ a.name = b.name
    /\ a.url = b.url

\* no two links have the same (execution, name, url)
C8_OnePerTriple ==
    \A a, b \in links : SameTriple(a, b) => a = b

\* add_link returns the existing link, or creates exactly one
C8_Step ==
    call'.op = "add_link" =>
        LET existing == {link \in links :
                            /\ link.execution_id = call'.case_run_id
                            /\ link.name = call'.name
                            /\ link.url = call'.url}
            r == response'.value
        IN  /\ response'.exc = ""
            /\ r.rc = 0
            /\ r.execution = call'.case_run_id
            /\ r.name = call'.name
            /\ r.url = call'.url
            /\ IF existing # {}
               THEN /\ links' = links
                    /\ \E link \in existing : link.id = r.id
               ELSE /\ Cardinality(links') = Cardinality(links) + 1
                    /\ links \subseteq links'
                    /\ \E link \in links' \ links :
                           /\ link.id = r.id
                           /\ link.execution_id = call'.case_run_id
                           /\ link.name = call'.name
                           /\ link.url = call'.url

\* C8: TestExecution.add_link is get-or-create: for a triple that already
\* has a link it creates nothing and returns the existing link, otherwise
\* it creates exactly one; the response is the link's fields plus rc = 0;
\* after any series of add_link calls there is at most one link per
\* (execution, name, url).
C8_AddLink == [](C8_OnePerTriple) /\ [][C8_Step]_vars

\* add_link was called for a triple that already had a link, among others
C8_Witness ==
    /\ call.op = "add_link"
    /\ response.exc = ""
    /\ response.value.rc = 0
    /\ response.value.id < next_link_id - 1
    /\ Cardinality(links) = 2

\* get_links returns exactly the links of the execution, each once
C9_GetLinks ==
    call.op = "get_links" =>
        /\ response.exc = ""
        /\ Len(response.value) =
               Cardinality({link \in links :
                               link.execution_id = call.case_run_id})
        /\ Range(response.value) =
               {[id |-> link.id, execution_id |-> link.execution_id,
                 name |-> link.name, url |-> link.url] :
                   link \in {l \in links :
                                l.execution_id = call.case_run_id}}

\* remove_link deletes exactly the links matching its query, and only
\* add_link adds a link
C9_Step ==
    /\ call'.op = "remove_link" =>
           LET q == call'.query
               matches(link) ==
                   /\ q.pk # None => link.id = Value(q.pk)
                   /\ q.execution_id # None
                          => link.execution_id = Value(q.execution_id)
                   /\ q.name # None => link.name = Value(q.name)
                   /\ q.url # None => link.url = Value(q.url)
           IN  links' = {link \in links : ~matches(link)}
    /\ call'.op # "remove_link" => links \subseteq links'
    /\ call'.op # "add_link" => links' \subseteq links

\* C9: TestExecution.remove_link(query) deletes exactly the links matching
\* the query and leaves every other link unchanged; get_links(case_run_id)
\* returns exactly the links currently attached to that execution, so a
\* link added with add_link is returned until a remove_link whose query
\* matches it, and not afterwards unless it is added again.
C9_Links == [](C9_GetLinks) /\ [][C9_Step]_vars

\* after three links were added and one of them removed, get_links returned
\* the one link left on its execution while another execution kept its own
C9_Witness ==
    /\ call.op = "get_links"
    /\ Len(response.value) = 1
    /\ Cardinality(links) = 2
    /\ next_link_id = 4
    /\ \E link \in links : link.execution_id # call.case_run_id

-----------------------------------------------------------------------------
(* Claims about add_testcase_to_issue *)

ThreadingAdapters == {"Bugzilla", "JIRA", "GitHub", "Gitlab", "Redmine"}

InAddTestcaseToIssue ==
    /\ call.op = "add_testcase_to_issue"
    /\ adapter[1].kind \in ThreadingAdapters

\* the threads started so far are those of the first n test cases, in order
StartedFor(n) ==
    /\ Len(threads) = n
    /\ \A k \in 1..n :
           /\ threads[k].case = call.testcases[k]
           /\ threads[k].issue = call.issue
           /\ threads[k].kind = adapter[1].kind

\* the caller never waits: while it is in the call it can take its next
\* step, whatever the threads are doing
NeverWaits == caller.pc = "loop" => ENABLED (StartThread \/ Return)

\* C10 as stated: on the Bugzilla, JIRA, GitHub, Gitlab and Redmine adapters
\* add_testcase_to_issue starts one thread per element of testcases, in list
\* order, each for that test case and the same issue, and returns without
\* waiting for them.
C10_Original ==
    InAddTestcaseToIssue =>
        /\ caller.pc # "raised"
        /\ caller.pc = "returned" => StartedFor(Len(call.testcases))

\* the credentials JIRA and Redmine need before __init__ creates self.rpc
RpcCredentials(tracker) ==
    /\ tracker.api_url # ""
    /\ tracker.api_username # ""
    /\ tracker.api_password # ""

\* C10 amended: the claim holds on Bugzilla, GitHub and Gitlab, and on JIRA
\* and Redmine when api_url, api_username and api_password are all set;
\* a JIRA or Redmine adapter built without them has no rpc client, and the
\* call raises AttributeError at the first element without starting a
\* thread (with an empty list it returns, having started none).
C10_AddTestcaseToIssue ==
    InAddTestcaseToIssue =>
        IF \/ adapter[1].kind \in {"Bugzilla", "GitHub", "Gitlab"}
           \/ RpcCredentials(adapter[1].tracker)
        THEN /\ caller.pc # "raised"
             /\ caller.pc = "loop" => StartedFor(caller.i - 1)
             /\ caller.pc = "returned" => StartedFor(Len(call.testcases))
             /\ NeverWaits
        ELSE /\ threads = <<>>
             /\ NeverWaits
             /\ caller.pc = "returned" => call.testcases = <<>>
             /\ caller.pc = "raised" =>
                    /\ call.testcases # <<>>
                    /\ response.exc = "AttributeError"

\* a JIRA adapter with credentials returned after starting the threads of
\* two test cases, in the order given, while both were still running
C10_Witness ==
    /\ call.op = "add_testcase_to_issue"
    /\ adapter[1].kind = "JIRA"
    /\ caller.pc = "returned"
    /\ call.testcases = <<2, 1>>
    /\ Len(threads) = 2
    /\ threads[1].case = 2
    /\ threads[2].case = 1
    /\ \A t \in DOMAIN threads : threads[t].state = "started"

-----------------------------------------------------------------------------
(* Claims about from_name, the credentials rule, all_issues_link and       *)
(* bug_id_from_url                                                         *)

\* C11: IssueTrackerType.from_name(name) returns the issue-tracker class of
\* this module whose name is name, and for every name that is not the name
\* of such a class it raises NotImplementedError; it never returns anything
\* that is not an issue-tracker class.
C11_FromName ==
    call.op = "from_name" =>
        IF call.name \in IssueTrackerClasses
        THEN /\ response.exc = ""
             /\ response.value = [type |-> "class", name |-> call.name]
        ELSE response.exc = "NotImplementedError"

\* the fields the claim requires of each kind of tracker
C12_Required(kind) ==
    IF kind \in {"Bugzilla", "JIRA", "Redmine"}
    THEN {"api_url", "api_username", "api_password"}
    ELSE {"base_url", "api_password"}

RECURSIVE C13_Joined(_, _, _)
C13_Joined(ids, i, sep) ==
    IF i > Len(ids) THEN ""
    ELSE ids[i] \o (IF i < Len(ids) THEN sep ELSE "")
         \o C13_Joined(ids, i + 1, sep)

C13_Separator ==
    [Bugzilla |-> ",", JIRA |-> "%2C%20", Redmine |-> "%2C"]

\* what a call of all_issues_link answers, from the adapter it is called on
C13_Step ==
    call'.op = "all_issues_link" =>
        LET kind == adapter[1].kind
            base_url == adapter[1].tracker.base_url
            ids == call'.ids
        IN  IF kind \in {"GitHub", "Gitlab", "LinkOnly"} \/ base_url = ""
            THEN response' = Returns(None)
            ELSE LET begin == IF last_char(base_url) = "/"
                              THEN base_url
                              ELSE base_url \o "/"
                 IN  response' =
                         Returns(Some(begin \o list_path_head(kind)
                                      \o C13_Joined(ids, 1, C13_Separator[kind])
                                      \o list_path_tail(kind)))

\* C13: all_issues_link(ids) returns None for GitHub, Gitlab and LinkOnly
\* adapters always, and for Bugzilla, JIRA and Redmine returns None when the
\* tracker's base_url is empty and otherwise a URL that begins with base_url
\* (with '/' appended only if it does not already end in '/') followed by
\* the tracker's list path with the given ids joined in their given order
\* by the tracker's separator (',' for Bugzilla, '%2C%20' for JIRA, '%2C'
\* for Redmine).
C13_AllIssuesLink == [][C13_Step]_vars

\* a JIRA adapter whose base_url ends in '/' was asked for the issues 8, 7
C13_Witness ==
    /\ call = [op |-> "all_issues_link", ids |-> <<"8", "7">>]
    /\ adapter[1].kind = "JIRA"
    /\ response =
           Returns(Some("http://it/issues/?jql=issueKey%20in%20(8%2C%207)"))

\* x is what follows the last '/' of s, or s when there is no '/' in it
C14_AfterLastSlash(s, x) ==
    \E i \in 0..Len(s) :
        /\ x = SubSeq(s, i + 1, Len(s))
        /\ i > 0 => SubSeq(s, i, i) = "/"
        /\ \A j \in (i + 1)..Len(s) : SubSeq(s, j, j) # "/"

\* n is the integer the digits s ends in stand for
C14_EndsInInt(s, n) ==
    \E i \in 1..Len(s) :
        /\ \A j \in i..Len(s) : SubSeq(s, j, j) \in Range(Digits)
        /\ i > 1 => SubSeq(s, i - 1, i - 1) \notin Range(Digits)
        /\ n = int(SubSeq(s, i, Len(s)))

\* C14: bug_id_from_url(url): the default implementation returns, for every
\* url, the integer value of the last group of digit characters at the end
\* of the url after surrounding whitespace is stripped; the JIRA
\* implementation returns the substring after the last '/' of the stripped
\* url (e.g. JENKINS-31044).
C14_BugIdFromUrl ==
    call.op = "bug_id_from_url" =>
        /\ response.exc = ""
        /\ IF adapter[1].kind = "JIRA"
           THEN C14_AfterLastSlash(strip(call.url), response.value)
           ELSE C14_EndsInInt(strip(call.url), response.value)

=============================================================================
